---- MODULE Spec2Model ----
(***************************************************************************)
(* NachOS file header (i-node) of code/filesys/filehdr.cc: allocation of   *)
(* direct, single-indirect and double-indirect blocks from the free map,   *)
(* deallocation, logical-to-physical translation and header persistence.   *)
(*                                                                         *)
(* The sizes below are scaled-down stand-ins for the values filehdr.h and  *)
(* disk.h give (the arithmetic of the code is kept, only the numbers are   *)
(* small).  A disk sector is a sequence of SectorWords integers, so that a *)
(* header or an index block is stored and re-read through its layout.      *)
(***************************************************************************)
EXTENDS Integers, Sequences, FiniteSets, TLC

NumDirect == 2
NumIndirect == 2
SectorSize == 2

\* logical blocks a header can address, and the bytes they hold
MaxBlocks == NumDirect + NumIndirect + NumIndirect * NumIndirect
MaxFileSize == MaxBlocks * SectorSize

\* the sectors that hold file headers; they are marked from the start
HdrSectors == {0, 1}
\* the disk: enough for the largest file with its index blocks, and one more
NumSectors == 2 + MaxBlocks + 2 + NumIndirect + 1
Sectors == 0 .. (NumSectors - 1)

Headers == {1, 2}

\* target sizes handed to Allocate: all of them up to one block past the top
FileSizes == 0 .. (MaxFileSize + SectorSize)

Max(a, b) == IF a >= b THEN a ELSE b
Min(a, b) == IF a <= b THEN a ELSE b
divRoundUp(n, s) == (n + s - 1) \div s

(***************************************************************************)
(* Records and their on-disk layout                                        *)
(***************************************************************************)
\* FileHeader::FileHeader()
ZeroHeader ==
  [ numBytes |-> 0, numSectors |-> 0,
    dataSectors |-> [i \in 0 .. (NumDirect - 1) |-> -1],
    singleIndirectSector |-> -1, doubleIndirectSector |-> -1,
    headerSector |-> -1 ]

\* Indirect::Indirect(): no entries, every pointer the sentinel
FreshIndirect ==
  [ numSectors |-> 0, dataSectors |-> [i \in 0 .. (NumIndirect - 1) |-> -1] ]

HeaderWords == NumDirect + 5
IndirectWords == NumIndirect + 1
SectorWords == Max(HeaderWords, IndirectWords)

Pad(ws) == ws \o [i \in 1 .. (SectorWords - Len(ws)) |-> 0]
ZeroSector == [i \in 1 .. SectorWords |-> 0]

\* a header one word longer than a sector: its last field is not written
HeaderToSector_truncated(hd) ==
  Pad(<<hd.numBytes, hd.numSectors>>
      \o [i \in 1 .. NumDirect |-> hd.dataSectors[i - 1]]
      \o <<hd.singleIndirectSector, hd.doubleIndirectSector>>)

\* the bytes WriteSector(sector, (char *)this) takes from a header
HeaderToSector(hd) ==
  Pad(<<hd.numBytes, hd.numSectors>>
      \o [i \in 1 .. NumDirect |-> hd.dataSectors[i - 1]]
      \o <<hd.singleIndirectSector, hd.doubleIndirectSector, hd.headerSector>>)

\* the header ReadSector(sector, (char *)this) leaves in memory
SectorToHeader(ws) ==
  [ numBytes |-> ws[1], numSectors |-> ws[2],
    dataSectors |-> [i \in 0 .. (NumDirect - 1) |-> ws[i + 3]],
    singleIndirectSector |-> ws[NumDirect + 3],
    doubleIndirectSector |-> ws[NumDirect + 4],
    headerSector |-> ws[NumDirect + 5] ]

IndirectToSector(ind) ==
  Pad(<<ind.numSectors>> \o [i \in 1 .. NumIndirect |-> ind.dataSectors[i - 1]])

SectorToIndirect(ws) ==
  [ numSectors |-> ws[1],
    dataSectors |-> [i \in 0 .. (NumIndirect - 1) |-> ws[i + 2]] ]

(***************************************************************************)
(* Collaborators: the free map (a bitmap, here the set of marked sectors)  *)
(* and the disk                                                            *)
(***************************************************************************)
\* Disk::ReadRequest / WriteRequest assert the sector number
ValidSector(s) == s \in Sectors

NumClear(map) == NumSectors - Cardinality(map)
Test(map, which) == which \in map
Clear(map, which) == map \ {which}

\* Bitmap::FindAndSet: the lowest clear bit, or -1 when none is clear
FindFree(map) ==
  IF Sectors \ map = {} THEN -1
  ELSE CHOOSE s \in Sectors \ map : \A t \in Sectors \ map : s <= t
MarkFound(map) == IF FindFree(map) = -1 THEN map ELSE map \cup {FindFree(map)}

(***************************************************************************)
(* FileHeader::GetPhysicSector and ByteToSector.  The result is the sector *)
(* and whether the call came back at all: ok is FALSE when an ASSERT of    *)
(* the function or of the disk stops the kernel.                           *)
(***************************************************************************)
ReadIndirect(d, sector) == SectorToIndirect(d[sector])

\* a translator that takes the slot in a secondary block by division, not by
\* remainder
GetPhysicSector_slotByDivision(hd, d, localSector) ==
  IF localSector < NumDirect
  THEN [ok |-> TRUE, sector |-> hd.dataSectors[localSector]]
  ELSE IF localSector < NumDirect + NumIndirect
  THEN IF hd.singleIndirectSector = -1 \/ ~ValidSector(hd.singleIndirectSector)
       THEN [ok |-> FALSE, sector |-> -1]
       ELSE [ok |-> TRUE,
             sector |-> ReadIndirect(d, hd.singleIndirectSector)
                          .dataSectors[localSector - NumDirect]]
  ELSE IF hd.doubleIndirectSector = -1 \/ ~ValidSector(hd.doubleIndirectSector)
       THEN [ok |-> FALSE, sector |-> -1]
       ELSE LET doubleIndirect == ReadIndirect(d, hd.doubleIndirectSector)
                single == (localSector - (NumDirect + NumIndirect)) \div NumIndirect
            IN  IF ~ValidSector(doubleIndirect.dataSectors[single])
                THEN [ok |-> FALSE, sector |-> -1]
                ELSE [ok |-> TRUE,
                      sector |-> ReadIndirect(d, doubleIndirect.dataSectors[single])
                                   .dataSectors[single]]

GetPhysicSector(hd, d, localSector) ==
  IF localSector < NumDirect
  THEN [ok |-> TRUE, sector |-> hd.dataSectors[localSector]]
  ELSE IF localSector < NumDirect + NumIndirect
  THEN IF hd.singleIndirectSector = -1 \/ ~ValidSector(hd.singleIndirectSector)
       THEN [ok |-> FALSE, sector |-> -1]
       ELSE [ok |-> TRUE,
             sector |-> ReadIndirect(d, hd.singleIndirectSector)
                          .dataSectors[localSector - NumDirect]]
  ELSE IF hd.doubleIndirectSector = -1 \/ ~ValidSector(hd.doubleIndirectSector)
       THEN [ok |-> FALSE, sector |-> -1]
       ELSE LET doubleIndirect == ReadIndirect(d, hd.doubleIndirectSector)
                single == (localSector - (NumDirect + NumIndirect)) \div NumIndirect
                pos == (localSector - (NumDirect + NumIndirect)) % NumIndirect
            IN  IF ~ValidSector(doubleIndirect.dataSectors[single])
                THEN [ok |-> FALSE, sector |-> -1]
                ELSE [ok |-> TRUE,
                      sector |-> ReadIndirect(d, doubleIndirect.dataSectors[single])
                                   .dataSectors[pos]]

ByteToSector(hd, d, offset) == GetPhysicSector(hd, d, offset \div SectorSize)

(***************************************************************************)
(* The loop bodies of the allocator                                        *)
(***************************************************************************)
\* while-condition of AllocateDirectBlocks
DirectCond(hd) == hd.numBytes >= 0 /\ hd.numBytes < NumDirect * SectorSize

\* an iteration that, on reaching the size, leaves the length at the end of
\* the last sector
DirectIter_roundsUp(hd, map, fileSize) ==
  IF fileSize <= hd.numSectors * SectorSize
  THEN [hd |-> [hd EXCEPT !.numBytes = hd.numSectors * SectorSize],
        map |-> map, brk |-> TRUE]
  ELSE IF hd.numSectors < NumDirect
  THEN [hd |-> [hd EXCEPT !.numBytes = hd.numSectors * SectorSize,
                          !.dataSectors[hd.numSectors] = FindFree(map),
                          !.numSectors = hd.numSectors + 1],
        map |-> MarkFound(map), brk |-> FALSE]
  ELSE [hd |-> [hd EXCEPT !.numBytes = hd.numSectors * SectorSize],
        map |-> map, brk |-> FALSE]

\* an iteration that stops only once the sectors hold more than the file
DirectIter_strict(hd, map, fileSize) ==
  IF fileSize < hd.numSectors * SectorSize
  THEN [hd |-> [hd EXCEPT !.numBytes = fileSize], map |-> map, brk |-> TRUE]
  ELSE IF hd.numSectors < NumDirect
  THEN [hd |-> [hd EXCEPT !.numBytes = hd.numSectors * SectorSize,
                          !.dataSectors[hd.numSectors] = FindFree(map),
                          !.numSectors = hd.numSectors + 1],
        map |-> MarkFound(map), brk |-> FALSE]
  ELSE [hd |-> [hd EXCEPT !.numBytes = hd.numSectors * SectorSize],
        map |-> map, brk |-> FALSE]

\* one iteration of the loop of AllocateDirectBlocks
DirectIter(hd, map, fileSize) ==
  IF fileSize <= hd.numSectors * SectorSize
  THEN [hd |-> [hd EXCEPT !.numBytes = fileSize], map |-> map, brk |-> TRUE]
  ELSE IF hd.numSectors < NumDirect
  THEN [hd |-> [hd EXCEPT !.numBytes = hd.numSectors * SectorSize,
                          !.dataSectors[hd.numSectors] = FindFree(map),
                          !.numSectors = hd.numSectors + 1],
        map |-> MarkFound(map), brk |-> FALSE]
  ELSE [hd |-> [hd EXCEPT !.numBytes = hd.numSectors * SectorSize],
        map |-> map, brk |-> FALSE]

\* a loop that is not entered when numBytes stands exactly at the start of
\* the block's range
IndirectCond_pastStart(hd, start) ==
  hd.numBytes > start /\ hd.numBytes < start + NumIndirect * SectorSize

\* while-condition of AllocateIndirectSpace
IndirectCond(hd, start) ==
  hd.numBytes >= start /\ hd.numBytes < start + NumIndirect * SectorSize

\* an iteration that takes the first clear sector without setting its bit
IndirectIter_findWithoutSet(hd, indirect, map, fileSize) ==
  IF fileSize <= hd.numSectors * SectorSize
  THEN [hd |-> [hd EXCEPT !.numBytes = fileSize], indirect |-> indirect,
        map |-> map, brk |-> TRUE]
  ELSE IF indirect.numSectors < NumIndirect
  THEN [hd |-> [hd EXCEPT !.numBytes = hd.numSectors * SectorSize,
                          !.numSectors = hd.numSectors + 1],
        indirect |-> [indirect EXCEPT !.dataSectors[indirect.numSectors] = FindFree(map),
                                      !.numSectors = indirect.numSectors + 1],
        map |-> map, brk |-> FALSE]
  ELSE [hd |-> [hd EXCEPT !.numBytes = hd.numSectors * SectorSize],
        indirect |-> indirect, map |-> map, brk |-> FALSE]

\* one iteration of the loop of AllocateIndirectSpace
IndirectIter(hd, indirect, map, fileSize) ==
  IF fileSize <= hd.numSectors * SectorSize
  THEN [hd |-> [hd EXCEPT !.numBytes = fileSize], indirect |-> indirect,
        map |-> map, brk |-> TRUE]
  ELSE IF indirect.numSectors < NumIndirect
  THEN [hd |-> [hd EXCEPT !.numBytes = hd.numSectors * SectorSize,
                          !.numSectors = hd.numSectors + 1],
        indirect |-> [indirect EXCEPT !.dataSectors[indirect.numSectors] = FindFree(map),
                                      !.numSectors = indirect.numSectors + 1],
        map |-> MarkFound(map), brk |-> FALSE]
  ELSE [hd |-> [hd EXCEPT !.numBytes = hd.numSectors * SectorSize],
        indirect |-> indirect, map |-> map, brk |-> FALSE]

(***************************************************************************)
(* FileHeader::Deallocate as a function of the header, the disk and the    *)
(* map: the map it leaves, and whether it came back (ok is FALSE when an   *)
(* ASSERT stopped it, the map then being as far as it got).                *)
(***************************************************************************)
\* a Deallocate that walks the header's own dataSectors[] only
RECURSIVE ReleaseData_directOnly(_, _, _, _)
ReleaseData_directOnly(hd, d, map, i) ==
  IF i >= Min(hd.numSectors, NumDirect) THEN [ok |-> TRUE, map |-> map]
  ELSE LET pos == hd.dataSectors[i]
       IN  IF ~ValidSector(pos) \/ ~Test(map, pos)
           THEN [ok |-> FALSE, map |-> map]
           ELSE ReleaseData_directOnly(hd, d, Clear(map, pos), i + 1)

RECURSIVE ReleaseData(_, _, _, _)
ReleaseData(hd, d, map, i) ==
  IF i >= hd.numSectors THEN [ok |-> TRUE, map |-> map]
  ELSE LET pos == GetPhysicSector(hd, d, i)
       IN  IF ~pos.ok \/ ~ValidSector(pos.sector) \/ ~Test(map, pos.sector)
           THEN [ok |-> FALSE, map |-> map]
           ELSE ReleaseData(hd, d, Clear(map, pos.sector), i + 1)

\* a Deallocate that leaves the index blocks marked
ReleaseIndex_keepsBlock(map, sector) ==
  IF sector = -1 THEN [ok |-> TRUE, map |-> map]
  ELSE IF ~ValidSector(sector) THEN [ok |-> FALSE, map |-> map]
  ELSE [ok |-> TRUE, map |-> map]

\* if (sector != -1) { if (freeMap->Test(sector)) freeMap->Clear(sector); }
ReleaseIndex(map, sector) ==
  IF sector = -1 THEN [ok |-> TRUE, map |-> map]
  ELSE IF ~ValidSector(sector) THEN [ok |-> FALSE, map |-> map]
  ELSE [ok |-> TRUE, map |-> Clear(map, sector)]

DeallocateResult(hd, d, map) ==
  LET data == ReleaseData(hd, d, map, 0)
      single == ReleaseIndex(data.map, hd.singleIndirectSector)
      double == ReleaseIndex(single.map, hd.doubleIndirectSector)
  IN  IF ~data.ok THEN data
      ELSE IF ~single.ok THEN single
      ELSE double

(***************************************************************************)
(* State                                                                   *)
(***************************************************************************)
VARIABLES
  hdr,      \* hdr[h]: the in-memory FileHeader object h
  freeMap,  \* the set of sectors marked in the free map
  disk,     \* disk[s]: the words of sector s
  pc,       \* pc[h]: where the call running on header h stands ("idle": none)
  loc,      \* loc[h]: the parameters and locals of that call
  ret,      \* ret[h]: what the last Allocate on h returned
  req,      \* req[h]: the size asked of, and the map found by, that Allocate
  stage,    \* stage[h]: the life of header h so far
  stored,   \* stored[s]: the header last written to sector s by WriteBack
  from,     \* from[h]: the sector h was fetched from, not written since (or -1)
  xlat      \* the translation just made (NoXlat after any other step)

vars == <<hdr, freeMap, disk, pc, loc, ret, req, stage, stored, from, xlat>>

InitLoc ==
  [ fileSize |-> 0, sector |-> -1, start |-> 0, caller |-> "none",
    indirect |-> FreshIndirect, doubleIndirect |-> FreshIndirect,
    cur_numSectors |-> 0 ]

\* again: the translation before it was of the same block of the same header,
\* and gave the sector prev
NoXlat == [h |-> 0, offset |-> 0, sector |-> -1, again |-> FALSE, prev |-> -1]
NoHeader == [numBytes |-> -1]

\* free maps a formatted disk may show: the header sectors marked, and of the
\* others the first f free, or every second one, or all but one
FreeCounts ==
  {0, 1, NumDirect + 1, NumDirect + NumIndirect + 3, NumSectors - 2}
InitMaps ==
  {HdrSectors \cup {s \in Sectors : s >= 2 + f} : f \in FreeCounts}
    \cup {HdrSectors \cup {s \in Sectors : s % 2 = 0}}
    \cup {HdrSectors \cup {3}}

Init ==
  /\ hdr = [h \in Headers |-> ZeroHeader]
  /\ freeMap \in InitMaps
  /\ disk = [s \in Sectors |-> ZeroSector]
  /\ pc = [h \in Headers |-> "idle"]
  /\ loc = [h \in Headers |-> InitLoc]
  /\ ret = [h \in Headers |-> "none"]
  /\ req = [h \in Headers |-> [fileSize |-> 0, map |-> {}]]
  /\ stage = [h \in Headers |-> "fresh"]
  /\ stored = [s \in HdrSectors |-> NoHeader]
  /\ from = [h \in Headers |-> -1]
  /\ xlat = NoXlat

Quiet == \A h \in Headers : pc[h] = "idle"
Running == \A h \in Headers : pc[h] # "abort"

\* a step of the call on h that stays inside the call
Step(h, hd, map, d, newPc, newLoc) ==
  /\ hdr' = [hdr EXCEPT ![h] = hd]
  /\ freeMap' = map
  /\ disk' = d
  /\ pc' = [pc EXCEPT ![h] = newPc]
  /\ loc' = [loc EXCEPT ![h] = newLoc]
  /\ xlat' = NoXlat
  /\ UNCHANGED <<ret, req, stage, stored, from>>

\* an ASSERT of the header, the bitmap or the disk fails: the kernel stops
Abort(h, hd, map, d) ==
  /\ hdr' = [hdr EXCEPT ![h] = hd]
  /\ freeMap' = map
  /\ disk' = d
  /\ pc' = [pc EXCEPT ![h] = "abort"]
  /\ xlat' = NoXlat
  /\ UNCHANGED <<loc, ret, req, stage, stored, from>>

\* Allocate returns val
Return(h, hd, map, d, val, newStage) ==
  /\ hdr' = [hdr EXCEPT ![h] = hd]
  /\ freeMap' = map
  /\ disk' = d
  /\ pc' = [pc EXCEPT ![h] = "idle"]
  /\ loc' = [loc EXCEPT ![h] = InitLoc]
  /\ ret' = [ret EXCEPT ![h] = val]
  /\ stage' = [stage EXCEPT ![h] = IF @ = "allocating" THEN newStage ELSE @]
  /\ xlat' = NoXlat
  /\ UNCHANGED <<req, stored, from>>

(***************************************************************************)
(* FileHeader::Allocate, one loop iteration (at most one FindAndSet) a step*)
(***************************************************************************)
\* entry of Allocate: the admission check on the header's own numSectors
AllocateEntry(h, fileSize) ==
  /\ Running
  /\ pc[h] = "idle"
  /\ stage[h] = "fresh"
  /\ req' = [req EXCEPT ![h] = [fileSize |-> fileSize, map |-> freeMap]]
  /\ xlat' = NoXlat
  /\ UNCHANGED <<hdr, freeMap, disk, stored, from>>
  /\ IF NumClear(freeMap) < hdr[h].numSectors
     THEN /\ ret' = [ret EXCEPT ![h] = "FALSE"]
          /\ stage' = [g \in Headers |-> IF g = h THEN "failed" ELSE stage[g]]
          /\ UNCHANGED <<pc, loc>>
     ELSE /\ pc' = [pc EXCEPT ![h] = "direct"]
          /\ loc' = [loc EXCEPT ![h] = [InitLoc EXCEPT !.fileSize = fileSize]]
          /\ stage' = [g \in Headers |->
                         IF g = h THEN "allocating"
                         ELSE IF stage[g] = "allocated" THEN "other" ELSE stage[g]]
          /\ UNCHANGED ret

\* a call made while no other call is running
Allocate(h, fileSize) == Quiet /\ AllocateEntry(h, fileSize)

AllocateDirectBlocks(h) ==
  /\ Running
  /\ pc[h] = "direct"
  /\ IF DirectCond(hdr[h])
     THEN LET r == DirectIter(hdr[h], freeMap, loc[h].fileSize)
          IN  Step(h, r.hd, r.map, disk,
                   IF r.brk THEN "afterDirect" ELSE "direct", loc[h])
     ELSE Step(h, hdr[h], freeMap, disk, "afterDirect", loc[h])

\* a test that sends a file of exactly NumDirect blocks on to the index block
FitsDirect_strict(fileSize) == fileSize < NumDirect * SectorSize

\* if (fileSize <= (NumDirect * SectorSize)) return TRUE;
FitsDirect(fileSize) == fileSize <= NumDirect * SectorSize

\* a block made in the first clear sector, whose bit is left clear
CreateSingleIndirectBlock_unmarked(hd, map, d) ==
  IF hd.singleIndirectSector # -1
  THEN [ok |-> TRUE, hd |-> hd, map |-> map, d |-> d]
  ELSE LET sector == FindFree(map)
           hd1 == [hd EXCEPT !.singleIndirectSector = sector]
       IN  IF ~ValidSector(sector)
           THEN [ok |-> FALSE, hd |-> hd1, map |-> map, d |-> d]
           ELSE [ok |-> TRUE, hd |-> hd1, map |-> map,
                 d |-> [d EXCEPT ![sector] = IndirectToSector(FreshIndirect)]]

\* FileHeader::CreateSingleIndirectBlock: ok is FALSE when the disk refuses
\* the sector FindAndSet gave
CreateSingleIndirectBlock(hd, map, d) ==
  IF hd.singleIndirectSector # -1
  THEN [ok |-> TRUE, hd |-> hd, map |-> map, d |-> d]
  ELSE LET sector == FindFree(map)
           hd1 == [hd EXCEPT !.singleIndirectSector = sector]
       IN  IF ~ValidSector(sector)
           THEN [ok |-> FALSE, hd |-> hd1, map |-> map, d |-> d]
           ELSE [ok |-> TRUE, hd |-> hd1, map |-> MarkFound(map),
                 d |-> [d EXCEPT ![sector] = IndirectToSector(FreshIndirect)]]

\* Allocate between the direct loop and the single-indirect loop
AllocateSingleIndirect(h) ==
  /\ Running
  /\ pc[h] = "afterDirect"
  /\ IF FitsDirect(loc[h].fileSize)
     THEN Return(h, hdr[h], freeMap, disk, "TRUE", "allocated")
     ELSE IF ~(hdr[h].numBytes >= NumDirect * SectorSize)
     THEN Abort(h, hdr[h], freeMap, disk)
     ELSE LET c == CreateSingleIndirectBlock(hdr[h], freeMap, disk)
              sector == c.hd.singleIndirectSector
          IN  IF ~c.ok \/ ~ValidSector(sector)
              THEN Abort(h, c.hd, c.map, c.d)
              ELSE Step(h, c.hd, c.map, c.d, "indirect",
                        [loc[h] EXCEPT !.sector = sector,
                                       !.start = NumDirect * SectorSize,
                                       !.caller = "single",
                                       !.indirect = ReadIndirect(c.d, sector)])

\* the loop of AllocateIndirectSpace
AllocateIndirectSpace(h) ==
  /\ Running
  /\ pc[h] = "indirect"
  /\ IF IndirectCond(hdr[h], loc[h].start)
     THEN LET r == IndirectIter(hdr[h], loc[h].indirect, freeMap, loc[h].fileSize)
          IN  Step(h, r.hd, r.map, disk,
                   IF r.brk THEN "indirectEnd" ELSE "indirect",
                   [loc[h] EXCEPT !.indirect = r.indirect])
     ELSE Step(h, hdr[h], freeMap, disk, "indirectEnd", loc[h])

\* the end of AllocateIndirectSpace (the block is written back) and what its
\* caller does with the count of bytes still to cover
IndirectSpaceReturn(h) ==
  /\ Running
  /\ pc[h] = "indirectEnd"
  /\ LET d1 == [disk EXCEPT ![loc[h].sector] = IndirectToSector(loc[h].indirect)]
         allocated == loc[h].fileSize - hdr[h].numBytes
     IN  IF loc[h].caller = "single"
         THEN IF allocated = 0
              THEN Return(h, hdr[h], freeMap, d1, "TRUE", "allocated")
              ELSE IF ~(allocated > 0)
              THEN Abort(h, hdr[h], freeMap, d1)
              ELSE Step(h, hdr[h], freeMap, d1, "double", loc[h])
         ELSE IF allocated # 0
              THEN Step(h, hdr[h], freeMap, d1, "doubleLoop",
                        [loc[h] EXCEPT !.cur_numSectors = @ + 1])
              ELSE Return(h, hdr[h], freeMap, d1, "TRUE", "allocated")

\* AllocateDoubleIndirectBlock up to its loop: the top block is read or made
AllocateDoubleIndirectBlock(h) ==
  /\ Running
  /\ pc[h] = "double"
  /\ IF hdr[h].doubleIndirectSector # -1
     THEN IF ~ValidSector(hdr[h].doubleIndirectSector)
          THEN Abort(h, hdr[h], freeMap, disk)
          ELSE Step(h, hdr[h], freeMap, disk, "doubleLoop",
                    [loc[h] EXCEPT
                       !.doubleIndirect = ReadIndirect(disk, hdr[h].doubleIndirectSector),
                       !.cur_numSectors = 0])
     ELSE LET sector == FindFree(freeMap)
              hd1 == [hdr[h] EXCEPT !.doubleIndirectSector = sector]
          IN  IF ~ValidSector(sector)
              THEN Abort(h, hd1, freeMap, disk)
              ELSE Step(h, hd1, MarkFound(freeMap),
                        [disk EXCEPT ![sector] = IndirectToSector(FreshIndirect)],
                        "doubleLoop",
                        [loc[h] EXCEPT !.doubleIndirect = FreshIndirect,
                                       !.cur_numSectors = 0])

\* a loop that records a new secondary block in the top block in memory only
WriteDoubleIndirect_skipped(d, sector, doubleIndirect) == d

\* WriteSector(doubleIndirectSector, (char *) doubleIndirect) in the do-loop
WriteDoubleIndirect(d, sector, doubleIndirect) ==
  [d EXCEPT ![sector] = IndirectToSector(doubleIndirect)]

\* the loop index has left the top block's pointer array
Overrun(h) ==
  IF loc[h].cur_numSectors >= NumIndirect THEN TRUE
  ELSE /\ loc[h].doubleIndirect.dataSectors[loc[h].cur_numSectors] = -1
       /\ loc[h].doubleIndirect.numSectors >= NumIndirect

\* one pass of the do-loop of AllocateDoubleIndirectBlock, up to the loop of
\* the AllocateIndirectSpace it calls
DoubleIndirectLoop(h) ==
  /\ Running
  /\ pc[h] = "doubleLoop"
  /\ ~Overrun(h)
  /\ LET cur == loc[h].cur_numSectors
         dbl == loc[h].doubleIndirect
     IN  IF ~(cur <= dbl.numSectors)
         THEN Abort(h, hdr[h], freeMap, disk)
         ELSE IF dbl.dataSectors[cur] # -1
         THEN IF ~ValidSector(dbl.dataSectors[cur])
              THEN Abort(h, hdr[h], freeMap, disk)
              ELSE Step(h, hdr[h], freeMap, disk, "indirect",
                        [loc[h] EXCEPT
                           !.sector = dbl.dataSectors[cur],
                           !.start = SectorSize * (NumDirect + NumIndirect * (1 + cur)),
                           !.caller = "double",
                           !.indirect = ReadIndirect(disk, dbl.dataSectors[cur])])
         ELSE LET indSector == FindFree(freeMap)
                  dbl1 == [dbl EXCEPT !.dataSectors[dbl.numSectors] = indSector,
                                      !.numSectors = dbl.numSectors + 1]
                  d1 == WriteDoubleIndirect(
                          [disk EXCEPT ![indSector] = IndirectToSector(FreshIndirect)],
                          hdr[h].doubleIndirectSector, dbl1)
              IN  IF ~ValidSector(indSector) \/ ~ValidSector(dbl1.dataSectors[cur])
                  THEN Abort(h, hdr[h], freeMap, disk)
                  ELSE Step(h, hdr[h], MarkFound(freeMap), d1, "indirect",
                            [loc[h] EXCEPT
                               !.sector = dbl1.dataSectors[cur],
                               !.start = SectorSize * (NumDirect + NumIndirect * (1 + cur)),
                               !.caller = "double",
                               !.doubleIndirect = dbl1,
                               !.indirect = ReadIndirect(d1, dbl1.dataSectors[cur])])

\* the do-loop reads doubleIndirect->dataSectors[] past its end: the value is
\* whatever lies behind the block.  The loop is left only with allocated = 0,
\* so the call either stops the kernel or comes back with numBytes at the
\* size asked: the block still missing (sizes reach one block past the
\* capacity) is recorded in a stray index block, found behind the stray
\* pointer or drawn from the map when that pointer reads -1
DoubleIndirectOverrun(h) ==
  /\ Running
  /\ pc[h] = "doubleLoop"
  /\ Overrun(h)
  /\ \/ Abort(h, hdr[h], freeMap, disk)
     \/ /\ loc[h].cur_numSectors <= loc[h].doubleIndirect.numSectors
        /\ \E map \in {MarkFound(freeMap), MarkFound(MarkFound(freeMap))} :
             Return(h, [hdr[h] EXCEPT !.numBytes = loc[h].fileSize,
                                      !.numSectors = hdr[h].numSectors + 1],
                    map, disk, "TRUE", "overrun")

\* the sectors Deallocate on header h is to release: the data sector of
\* every logical index below numSectors, and the two index sectors
DataSectors(h) ==
  {GetPhysicSector(hdr[h], disk, i).sector :
     i \in 0 .. (Min(hdr[h].numSectors, MaxBlocks) - 1)}
IndexSectors(h) ==
  {hdr[h].singleIndirectSector, hdr[h].doubleIndirectSector} \ {-1}
Owned(h) == (DataSectors(h) \cup IndexSectors(h)) \cap Sectors

(***************************************************************************)
(* Deallocate, FetchFrom, WriteBack and a translation, each made while no  *)
(* other call is running                                                   *)
(***************************************************************************)
\* a header that counts a block past the capacity (left by an overrun) makes
\* GetPhysicSector read past the top block too: the data loop then stops the
\* kernel there, or clears whatever marked sector the stray pointer leads to
Deallocate(h) ==
  /\ Running /\ Quiet
  /\ stage[h] \notin {"released", "gone"}
  /\ LET hd == [hdr[h] EXCEPT !.numSectors = Min(@, MaxBlocks)]
         data == ReleaseData(hd, disk, freeMap, 0)
         r == DeallocateResult(hd, disk, freeMap)
     IN  /\ IF hdr[h].numSectors <= MaxBlocks
            THEN /\ freeMap' = r.map
                 /\ pc' = [pc EXCEPT ![h] = IF r.ok THEN "idle" ELSE "abort"]
            ELSE \/ /\ freeMap' = data.map
                    /\ pc' = [pc EXCEPT ![h] = "abort"]
                 \/ /\ data.ok
                    /\ \E pos \in data.map :
                         LET rest == DeallocateResult([hd EXCEPT !.numSectors = 0],
                                                      disk, Clear(data.map, pos))
                         IN  /\ freeMap' = rest.map
                             /\ pc' = [pc EXCEPT ![h] = IF rest.ok THEN "idle" ELSE "abort"]
         /\ stage' = [g \in Headers |->
                        IF g = h
                        THEN IF stage[h] = "allocated" THEN "released" ELSE "gone"
                        ELSE IF stage[g] = "allocated" THEN "other" ELSE stage[g]]
  /\ xlat' = NoXlat
  /\ UNCHANGED <<hdr, disk, loc, ret, req, stored, from>>

WriteBack(h, sector) ==
  /\ Running /\ Quiet
  /\ disk' = [disk EXCEPT ![sector] = HeaderToSector(hdr[h])]
  /\ stored' = [stored EXCEPT ![sector] = hdr[h]]
  /\ from' = [g \in Headers |-> IF from[g] = sector THEN -1 ELSE from[g]]
  /\ xlat' = NoXlat
  /\ UNCHANGED <<hdr, freeMap, pc, loc, ret, req, stage>>

\* a new header object is filled from a sector that holds a header
FetchFrom(h, sector) ==
  /\ Running /\ Quiet
  /\ stage[h] \in {"fresh", "fetched"}
  /\ disk[sector] # ZeroSector
  /\ hdr' = [hdr EXCEPT ![h] = SectorToHeader(disk[sector])]
  /\ stage' = [stage EXCEPT ![h] = "fetched"]
  /\ from' = [from EXCEPT ![h] = sector]
  /\ xlat' = NoXlat
  /\ UNCHANGED <<freeMap, disk, pc, loc, ret, req, stored>>

\* the translation just made was of the block of h that holds byte offset
SameBlock(h, offset) ==
  xlat.h = h /\ xlat.offset \div SectorSize = offset \div SectorSize

\* a translation that keeps the sector it found in the header's spare field
Translate_memoising(h, offset) ==
  /\ Running /\ Quiet
  /\ offset < hdr[h].numBytes
  /\ LET r == ByteToSector(hdr[h], disk, offset)
     IN  /\ pc' = [pc EXCEPT ![h] = IF r.ok THEN "idle" ELSE "abort"]
         /\ hdr' = [hdr EXCEPT ![h].headerSector = r.sector]
         /\ xlat' = IF r.ok
                    THEN [ h |-> h, offset |-> offset, sector |-> r.sector,
                           again |-> SameBlock(h, offset),
                           prev |-> IF SameBlock(h, offset) THEN xlat.sector ELSE -1 ]
                    ELSE NoXlat
  /\ UNCHANGED <<freeMap, disk, loc, ret, req, stage, stored, from>>

\* ByteToSector(offset) for a byte of the file, as OpenFile asks it
Translate(h, offset) ==
  /\ Running /\ Quiet
  /\ offset < hdr[h].numBytes
  /\ LET r == ByteToSector(hdr[h], disk, offset)
     IN  /\ pc' = [pc EXCEPT ![h] = IF r.ok THEN "idle" ELSE "abort"]
         /\ xlat' = IF r.ok
                    THEN [ h |-> h, offset |-> offset, sector |-> r.sector,
                           again |-> SameBlock(h, offset),
                           prev |-> IF SameBlock(h, offset) THEN xlat.sector ELSE -1 ]
                    ELSE NoXlat
  /\ UNCHANGED <<hdr, freeMap, disk, loc, ret, req, stage, stored, from>>

AllocateStep(h) ==
  \/ AllocateDirectBlocks(h)
  \/ AllocateSingleIndirect(h)
  \/ AllocateIndirectSpace(h)
  \/ IndirectSpaceReturn(h)
  \/ AllocateDoubleIndirectBlock(h)
  \/ DoubleIndirectLoop(h)
  \/ DoubleIndirectOverrun(h)

\* header 1 is the one a file is created with, header 2 the one it is
\* opened with
Creators == {1}
Openers == {2}

\* the life of one file's header: Allocate, then Deallocate
Next ==
  \E h \in Creators :
    \/ \E fileSize \in FileSizes : Allocate(h, fileSize)
    \/ AllocateStep(h)
    \/ Deallocate(h)

Spec == Init /\ [][Next]_vars

\* a file is created and its header stored; it is opened from the stored
\* header and its bytes are looked up.  The disk is free or has room for the
\* direct and single-indirect levels only.
IOMaps ==
  { HdrSectors,
    HdrSectors \cup {s \in Sectors : s >= 2 + NumDirect + NumIndirect + 3} }

InitIO ==
  /\ hdr = [h \in Headers |-> ZeroHeader]
  /\ freeMap \in IOMaps
  /\ disk = [s \in Sectors |-> ZeroSector]
  /\ pc = [h \in Headers |-> "idle"]
  /\ loc = [h \in Headers |-> InitLoc]
  /\ ret = [h \in Headers |-> "none"]
  /\ req = [h \in Headers |-> [fileSize |-> 0, map |-> {}]]
  /\ stage = [h \in Headers |-> "fresh"]
  /\ stored = [s \in HdrSectors |-> NoHeader]
  /\ from = [h \in Headers |-> -1]
  /\ xlat = NoXlat

NextIO ==
  \/ \E h \in Creators, fileSize \in FileSizes : Allocate(h, fileSize)
  \/ \E h \in Creators : AllocateStep(h)
  \/ \E h \in Creators, sector \in HdrSectors : WriteBack(h, sector)
  \/ \E h \in Openers, sector \in HdrSectors : FetchFrom(h, sector)
  \/ \E h \in Openers, offset \in 0 .. (MaxFileSize - 1) : Translate(h, offset)

SpecIO == InitIO /\ [][NextIO]_vars

\* two files are created at once: the two Allocate calls interleave at
\* every loop iteration, one reaching the double-indirect level and the other
\* the direct or the single-indirect level, on a free, a striped or a nearly
\* full disk
ConcSizes(h) ==
  IF h = 1 THEN {(NumDirect + NumIndirect) * SectorSize + 1}
  ELSE {SectorSize, (NumDirect + 1) * SectorSize}

ConcMaps ==
  { HdrSectors, HdrSectors \cup {s \in Sectors : s % 2 = 0},
    HdrSectors \cup {s \in Sectors : s >= 2 + NumDirect + 1} }

InitConc ==
  /\ hdr = [h \in Headers |-> ZeroHeader]
  /\ freeMap \in ConcMaps
  /\ disk = [s \in Sectors |-> ZeroSector]
  /\ pc = [h \in Headers |-> "idle"]
  /\ loc = [h \in Headers |-> InitLoc]
  /\ ret = [h \in Headers |-> "none"]
  /\ req = [h \in Headers |-> [fileSize |-> 0, map |-> {}]]
  /\ stage = [h \in Headers |-> "fresh"]
  /\ stored = [s \in HdrSectors |-> NoHeader]
  /\ from = [h \in Headers |-> -1]
  /\ xlat = NoXlat

NextConc ==
  \E h \in Headers :
    \/ \E fileSize \in ConcSizes(h) : AllocateEntry(h, fileSize)
    \/ AllocateDirectBlocks(h)
    \/ AllocateSingleIndirect(h)
    \/ AllocateIndirectSpace(h)
    \/ IndirectSpaceReturn(h)
    \/ AllocateDoubleIndirectBlock(h)
    \/ DoubleIndirectLoop(h)

SpecConc == InitConc /\ [][NextConc]_vars

\* the free map is shared with every other file: a header that holds sector s
\* of this file as well (a stale copy of it) releases s.  Taken once, while
\* all the file's sectors are still marked.
StaleRelease(h, s) ==
  /\ Running /\ Quiet
  /\ stage[h] = "allocated"
  /\ Owned(h) \subseteq freeMap
  /\ s \in Owned(h)
  /\ freeMap' = Clear(freeMap, s)
  /\ xlat' = NoXlat
  /\ UNCHANGED <<hdr, disk, pc, loc, ret, req, stage, stored, from>>

NextStale ==
  \E h \in Creators :
    \/ \E fileSize \in FileSizes : Allocate(h, fileSize)
    \/ AllocateStep(h)
    \/ \E s \in Sectors : StaleRelease(h, s)
    \/ Deallocate(h)

SpecStale == Init /\ [][NextStale]_vars

(***************************************************************************)
(* What the claims speak of                                                *)
(***************************************************************************)
Blocks(fileSize) == divRoundUp(fileSize, SectorSize)

\* index blocks a file of n data blocks needs
IndexBlocks(n) ==
  IF n <= NumDirect THEN 0
  ELSE IF n <= NumDirect + NumIndirect THEN 1
  ELSE 2 + divRoundUp(n - NumDirect - NumIndirect, NumIndirect)

NeededSectors(fileSize) == Blocks(fileSize) + IndexBlocks(Blocks(fileSize))

\* the map the Allocate call on h found had room for all the request needs
Enough(h) == NumClear(req[h].map) >= NeededSectors(req[h].fileSize)

\* the Allocate call on the zeroed header h has returned
Returned(h) == pc[h] = "idle" /\ stage[h] \in {"allocated", "failed", "overrun"}

\* ... or has stopped the kernel
CallOver(h) == Returned(h) \/ (pc[h] = "abort" /\ stage[h] = "allocating")

Zeroed(hd) ==
  /\ hd.numBytes = 0
  /\ hd.numSectors = 0
  /\ \A i \in 0 .. (NumDirect - 1) : hd.dataSectors[i] = -1
  /\ hd.singleIndirectSector = -1
  /\ hd.doubleIndirectSector = -1

\* C1: for every size up to the capacity, on a zeroed header and a map with
\* room for the data and index blocks, Allocate leaves numBytes at the size
\* and every logical block of the file translates to a marked sector, no two
\* blocks to the same one.
C1_AllocateThenTranslate ==
  \A h \in Headers :
    (stage[h] = "allocated" /\ req[h].fileSize <= MaxFileSize /\ Enough(h)) =>
      /\ ret[h] = "TRUE"
      /\ hdr[h].numBytes = req[h].fileSize
      /\ \A i \in 0 .. (Blocks(req[h].fileSize) - 1) :
           /\ GetPhysicSector(hdr[h], disk, i).ok
           /\ GetPhysicSector(hdr[h], disk, i).sector \in freeMap
      /\ \A i, j \in 0 .. (Blocks(req[h].fileSize) - 1) :
           i # j => GetPhysicSector(hdr[h], disk, i).sector
                      # GetPhysicSector(hdr[h], disk, j).sector

\* a file of the full capacity has been allocated
C1_Witness ==
  \E h \in Headers :
    /\ stage[h] = "allocated"
    /\ req[h].fileSize = MaxFileSize
    /\ Enough(h)
    /\ hdr[h].numSectors = MaxBlocks

\* C2: when the map has fewer free sectors than the request needs, Allocate
\* on a zeroed header returns FALSE and leaves the map and the header as
\* they were.
C2_FailsAtomically ==
  \A h \in Headers :
    (Returned(h) /\ ~Enough(h)) =>
      /\ ret[h] = "FALSE"
      /\ freeMap = req[h].map
      /\ Zeroed(hdr[h])

\* C3: for a size above the capacity, Allocate on a zeroed header returns
\* FALSE and the count of free sectors is what it was.
C3_OverCapacityFails ==
  \A h \in Headers :
    (CallOver(h) /\ req[h].fileSize > MaxFileSize) =>
      /\ ret[h] = "FALSE"
      /\ NumClear(freeMap) = NumClear(req[h].map)

\* C4: for a size within the direct and single-indirect levels and a map with
\* room for it, Allocate then Deallocate on the same header leaves the map
\* exactly as Allocate found it.
C4_DeallocateRestoresMap ==
  \A h \in Headers :
    ( /\ stage[h] = "released"
      /\ req[h].fileSize <= (NumDirect + NumIndirect) * SectorSize
      /\ Enough(h) ) =>
      /\ pc[h] = "idle"
      /\ freeMap = req[h].map

\* a file filling the single-indirect block has been allocated and released
C4_Witness ==
  \E h \in Headers :
    /\ stage[h] = "released"
    /\ req[h].fileSize = (NumDirect + NumIndirect) * SectorSize
    /\ Enough(h)
    /\ hdr[h].singleIndirectSector \in Sectors

\* what an index block holds: its entries that are sector numbers
Entries(indirect) ==
  {indirect.dataSectors[i] : i \in 0 .. (NumIndirect - 1)} \cap Sectors

BlockAt(sector) ==
  IF sector \in Sectors THEN ReadIndirect(disk, sector) ELSE FreshIndirect

\* the sectors header h records: in its direct slots, as its index blocks, and
\* in the index blocks, on disk or still in the hands of its Allocate call
Recorded(h) ==
  ( ( {hdr[h].dataSectors[i] : i \in 0 .. (NumDirect - 1)}
        \cup {hdr[h].singleIndirectSector, hdr[h].doubleIndirectSector} ) \cap Sectors )
    \cup Entries(BlockAt(hdr[h].singleIndirectSector))
    \cup Entries(BlockAt(hdr[h].doubleIndirectSector))
    \cup UNION {Entries(BlockAt(s)) : s \in Entries(BlockAt(hdr[h].doubleIndirectSector))}
    \cup Entries(loc[h].indirect)
    \cup Entries(loc[h].doubleIndirect)

\* C5: while two Allocate calls on two headers interleave on one free map,
\* each FindAndSet one step, no sector is recorded by both headers.
C5_NoSectorHandedTwice ==
  \A g, h \in Headers : g # h => Recorded(g) \cap Recorded(h) = {}

\* both calls are inside their index-block loops, each holding sectors
C5_Witness ==
  /\ pc[1] = "indirect" /\ loc[1].caller = "double"
  /\ pc[2] = "indirect"
  /\ Cardinality(Recorded(1)) > NumDirect + NumIndirect
  /\ Cardinality(Recorded(2)) > NumDirect

\* the secondary index blocks the double-indirect block of hd points to
Secondaries(hd) == Entries(BlockAt(hd.doubleIndirectSector))

\* C6: between calls, whatever Allocate and Deallocate calls were made and
\* whatever the map held, direct slot i is a marked sector for i < numSectors
\* and -1 from numSectors on, and every index block and every data sector
\* reached through one is marked.
C6_ClaimedSectorsMarked ==
  \A h \in Headers :
    pc[h] = "idle" =>
      /\ \A i \in 0 .. (NumDirect - 1) :
           IF i < hdr[h].numSectors
           THEN hdr[h].dataSectors[i] \in freeMap
           ELSE hdr[h].dataSectors[i] = -1
      /\ hdr[h].singleIndirectSector # -1 => hdr[h].singleIndirectSector \in freeMap
      /\ hdr[h].doubleIndirectSector # -1 => hdr[h].doubleIndirectSector \in freeMap
      /\ \A i \in NumDirect .. (hdr[h].numSectors - 1) :
           /\ GetPhysicSector(hdr[h], disk, i).ok
           /\ GetPhysicSector(hdr[h], disk, i).sector \in freeMap

\* an index block of exactly n pointers: n counted, n slots filled (with
\* sectors when the map had room), the rest unused
Holds(indirect, n, sectors) ==
  /\ indirect.numSectors = n
  /\ \A i \in 0 .. (NumIndirect - 1) :
       IF i < n THEN (sectors => indirect.dataSectors[i] \in Sectors)
       ELSE indirect.dataSectors[i] = -1

\* C7: after Allocate on a zeroed header returned TRUE, there is a
\* single-indirect block iff the size exceeds NumDirect blocks, holding one
\* pointer when it exceeds them by one byte; and a double-indirect block iff
\* the size exceeds NumDirect+NumIndirect blocks, with one secondary block
\* of one pointer when it exceeds them by at most one block.
C7_IndexBlocksOnDemand ==
  \A h \in Headers :
    stage[h] = "allocated" =>
      LET s == req[h].fileSize
          hd == hdr[h]
      IN  /\ ret[h] = "TRUE"
          /\ hd.singleIndirectSector = -1 <=> s <= NumDirect * SectorSize
          /\ s = NumDirect * SectorSize + 1 =>
               Holds(BlockAt(hd.singleIndirectSector), 1, Enough(h))
          /\ hd.doubleIndirectSector = -1 <=>
               s <= (NumDirect + NumIndirect) * SectorSize
          /\ ( /\ s > (NumDirect + NumIndirect) * SectorSize
               /\ s <= (NumDirect + NumIndirect + 1) * SectorSize ) =>
               /\ Holds(BlockAt(hd.doubleIndirectSector), 1, TRUE)
               /\ \A b \in Secondaries(hd) : Holds(BlockAt(b), 1, Enough(h))

\* a file one byte into the double-indirect level has been allocated
C7_Witness ==
  \E h \in Headers :
    /\ stage[h] = "allocated"
    /\ req[h].fileSize = (NumDirect + NumIndirect) * SectorSize + 1
    /\ Enough(h)
    /\ Cardinality(Secondaries(hdr[h])) = 1

\* C8: after Allocate on a zeroed header returned TRUE, numSectors is
\* ceil(size / SectorSize), the index blocks not counted, and (the map having
\* had room) as many direct slots are filled as the file has blocks, up to
\* NumDirect.
C8_SectorCount ==
  \A h \in Headers :
    stage[h] = "allocated" =>
      /\ hdr[h].numSectors = Blocks(req[h].fileSize)
      /\ Enough(h) =>
           Cardinality({i \in 0 .. (NumDirect - 1) : hdr[h].dataSectors[i] # -1})
             = Min(Blocks(req[h].fileSize), NumDirect)

\* a file with index blocks of both levels has been allocated
C8_Witness ==
  \E h \in Headers :
    /\ stage[h] = "allocated"
    /\ Enough(h)
    /\ hdr[h].doubleIndirectSector \in Sectors
    /\ hdr[h].numSectors = Blocks(req[h].fileSize)
    /\ NumClear(freeMap) < NumClear(req[h].map) - hdr[h].numSectors

\* C9: a header fetched from a sector that WriteBack wrote, and that was not
\* written since, equals the header that was written, field by field.
C9_RoundTrip ==
  \A h \in Headers :
    from[h] # -1 =>
      /\ hdr[h].numBytes = stored[from[h]].numBytes
      /\ hdr[h].numSectors = stored[from[h]].numSectors
      /\ \A i \in 0 .. (NumDirect - 1) :
           hdr[h].dataSectors[i] = stored[from[h]].dataSectors[i]
      /\ hdr[h].singleIndirectSector = stored[from[h]].singleIndirectSector
      /\ hdr[h].doubleIndirectSector = stored[from[h]].doubleIndirectSector
      /\ hdr[h].headerSector = stored[from[h]].headerSector

\* the header of a file with a double-indirect block, written by one header
\* object and fetched by another
C9_Witness ==
  \E h \in Openers, g \in Creators :
    /\ from[h] # -1
    /\ stored[from[h]] = hdr[g]
    /\ hdr[g].doubleIndirectSector \in Sectors
    /\ hdr[h].doubleIndirectSector \in Sectors

\* C10: a translation changes neither a header, nor the disk, nor the free
\* map, and made again for the same block of the same header it gives the
\* same sector.
C10_TranslationReadOnly ==
  [][ xlat' # NoXlat =>
        /\ hdr' = hdr
        /\ disk' = disk
        /\ freeMap' = freeMap
        /\ xlat'.again => xlat'.sector = xlat'.prev ]_vars

\* a block behind the double-indirect block has been translated twice running
C10_Witness ==
  /\ xlat.again
  /\ xlat.offset >= (NumDirect + NumIndirect) * SectorSize
  /\ xlat.sector \in Sectors

\* the index block at sector as the call on h has it: in memory while the
\* loop of AllocateIndirectSpace fills it, on disk otherwise
CurBlock(h, sector) ==
  IF pc[h] \in {"indirect", "indirectEnd"} /\ loc[h].sector = sector
  THEN loc[h].indirect
  ELSE BlockAt(sector)

HasEntry(indirect) ==
  indirect.numSectors > 0 \/ \E i \in 0 .. (NumIndirect - 1) : indirect.dataSectors[i] # -1

\* secondary block k of header h (an empty block when there is none)
Secondary(h, k) ==
  CurBlock(h, BlockAt(hdr[h].doubleIndirectSector).dataSectors[k])

\* C11: in every state of an Allocate call on a zeroed header, from its entry
\* to its return, the single-indirect block holds an entry only if every
\* direct slot is filled, there is a double-indirect block only if the
\* single-indirect block holds NumIndirect entries, and secondary block k+1
\* holds an entry only if secondary block k holds NumIndirect entries.
C11_AscendingOrder ==
  \A h \in Headers :
    stage[h] \in {"allocating", "allocated"} =>
      LET single == CurBlock(h, hdr[h].singleIndirectSector)
      IN  /\ HasEntry(single) =>
               /\ hdr[h].numSectors >= NumDirect
               /\ \A i \in 0 .. (NumDirect - 1) : hdr[h].dataSectors[i] # -1
          /\ hdr[h].doubleIndirectSector # -1 => single.numSectors = NumIndirect
          /\ \A k \in 0 .. (NumIndirect - 2) :
               HasEntry(Secondary(h, k + 1)) =>
                 Secondary(h, k).numSectors = NumIndirect

\* the call is filling the second secondary block, which holds an entry
C11_Witness ==
  \E h \in Headers :
    /\ stage[h] = "allocating"
    /\ pc[h] = "indirect"
    /\ loc[h].caller = "double"
    /\ loc[h].cur_numSectors = 1
    /\ HasEntry(loc[h].indirect)
    /\ HasEntry(Secondary(h, 1))

\* C12: in every state of an Allocate call on a zeroed header, after each
\* loop iteration of the three phases, numBytes <= numSectors * SectorSize;
\* and when the call has returned TRUE, numBytes is the size that was asked.
C12_LengthCovered ==
  \A h \in Headers :
    /\ stage[h] \in {"allocating", "allocated", "overrun"} =>
         hdr[h].numBytes <= hdr[h].numSectors * SectorSize
    /\ (Returned(h) /\ ret[h] = "TRUE") => hdr[h].numBytes = req[h].fileSize

\* inside the loop on a secondary block, the length one sector behind the
\* sectors drawn
C12_Witness ==
  \E h \in Headers :
    /\ stage[h] = "allocating"
    /\ pc[h] = "indirect"
    /\ loc[h].caller = "double"
    /\ hdr[h].numSectors > NumDirect + NumIndirect
    /\ hdr[h].numBytes = (hdr[h].numSectors - 1) * SectorSize

\* C13: in a header that Allocate returned TRUE for, the size within the
\* capacity (whatever the map held), every logical index below numSectors
\* that takes the single-indirect branch finds singleIndirectSector set, and
\* every one that takes the double-indirect branch finds doubleIndirectSector
\* set and the top block's entry for its secondary block set.
C13_NoAssertInTranslation ==
  \A h \in Headers :
    (stage[h] = "allocated" /\ req[h].fileSize <= MaxFileSize) =>
      \A i \in 0 .. (hdr[h].numSectors - 1) :
        /\ (i >= NumDirect /\ i < NumDirect + NumIndirect) =>
             hdr[h].singleIndirectSector # -1
        /\ i >= NumDirect + NumIndirect =>
             /\ hdr[h].doubleIndirectSector # -1
             /\ BlockAt(hdr[h].doubleIndirectSector)
                  .dataSectors[(i - (NumDirect + NumIndirect)) \div NumIndirect] # -1
        /\ GetPhysicSector(hdr[h], disk, i).ok

\* a header of the full capacity whose last block lies behind the last
\* secondary block
C13_Witness ==
  \E h \in Headers :
    /\ stage[h] = "allocated"
    /\ hdr[h].numSectors = MaxBlocks
    /\ BlockAt(hdr[h].doubleIndirectSector).dataSectors[NumIndirect - 1] \in Sectors
    /\ GetPhysicSector(hdr[h], disk, MaxBlocks - 1).ok

\* a step of Deallocate on header h, called on what an Allocate returned
DeallocateOf(h) ==
  stage[h] = "allocated" /\ stage'[h] = "released"

\* C14: Deallocate asserts every sector it releases, data sector or index
\* sector, to be marked: called with one of them not marked, it stops the
\* kernel and does not come back.
C14_ReleaseAsserts ==
  [][ \A h \in Headers :
        ( /\ DeallocateOf(h)
          /\ ~((DataSectors(h) \cup IndexSectors(h)) \subseteq freeMap) )
        => pc'[h] = "abort" ]_vars

\* C15: for every size that needs the double-indirect level, up to the
\* capacity, and a map with room for it, Allocate then Deallocate on the same
\* header leaves marked, of all the allocation drew, exactly the secondary
\* index blocks: ceil((ceil(s/SectorSize) - NumDirect - NumIndirect) /
\* NumIndirect) free sectors fewer than before, the data sectors and the
\* single- and double-indirect sectors released.
C15_SecondaryBlocksLeak ==
  \A h \in Headers :
    ( /\ stage[h] = "released"
      /\ req[h].fileSize > (NumDirect + NumIndirect) * SectorSize
      /\ req[h].fileSize <= MaxFileSize
      /\ Enough(h) ) =>
      /\ pc[h] = "idle"
      /\ NumClear(freeMap) =
           NumClear(req[h].map)
             - divRoundUp(Blocks(req[h].fileSize) - NumDirect - NumIndirect, NumIndirect)
      /\ freeMap = req[h].map \cup Secondaries(hdr[h])
      /\ (DataSectors(h) \cup IndexSectors(h)) \cap freeMap = {}

\* a file of the full capacity has been allocated and released, its
\* NumIndirect secondary blocks still marked
C15_Witness ==
  \E h \in Headers :
    /\ stage[h] = "released"
    /\ pc[h] = "idle"
    /\ req[h].fileSize = MaxFileSize
    /\ Enough(h)
    /\ Cardinality(Secondaries(hdr[h])) = NumIndirect
    /\ Secondaries(hdr[h]) \subseteq freeMap
    /\ 3 \in req[h].map

\* C16: after Deallocate has returned, the header is in the zeroed state:
\* numBytes and numSectors 0, every direct slot and both index pointers -1.
C16_DeallocateZeroes ==
  \A h \in Headers :
    (stage[h] = "released" /\ pc[h] = "idle") => Zeroed(hdr[h])

\* C17: an Allocate call on a zeroed header, whatever the size and the map,
\* comes to return TRUE or FALSE: it is never stopped inside the call, and
\* its do-loop never takes an index outside the top block's pointer array.
C17_AllocateReturns ==
  \A h \in Headers :
    /\ stage[h] = "allocating" => pc[h] # "abort"
    /\ pc[h] = "doubleLoop" => ~Overrun(h)

\* C18: an Allocate that returned TRUE, for n = ceil(s/SectorSize) blocks
\* within the capacity and a map with room, has lowered the free count by
\* n + indexBlocks(n), and the sectors it drew are exactly those recorded in
\* the header and its index blocks.
C18_SectorsDrawn ==
  \A h \in Headers :
    (stage[h] = "allocated" /\ req[h].fileSize <= MaxFileSize /\ Enough(h)) =>
      /\ ret[h] = "TRUE"
      /\ NumClear(freeMap) =
           NumClear(req[h].map)
             - (Blocks(req[h].fileSize) + IndexBlocks(Blocks(req[h].fileSize)))
      /\ freeMap \ req[h].map = Recorded(h)

\* a file of the full capacity has been allocated around a sector in use
C18_Witness ==
  \E h \in Headers :
    /\ stage[h] = "allocated"
    /\ req[h].fileSize = MaxFileSize
    /\ 3 \in req[h].map
    /\ Cardinality(freeMap \ req[h].map) = MaxBlocks + 2 + NumIndirect

====
